---- MODULE Spec2Model ----
(***************************************************************************)
(* Model of the typed API client layer (src/lib/api.ts): TokenManager,     *)
(* LoadingManager, RequestQueue, ApiClient (interceptors, handleError,     *)
(* makeRequest with retry-by-recursion) and the authApi / bookSevaApi      *)
(* wrappers.                                                               *)
(*                                                                         *)
(* JavaScript runs one macrotask at a time: a user call, the arrival of a  *)
(* network response and the expiry of a timer are the macrotasks; promise  *)
(* continuations are microtasks that run to completion before the next     *)
(* macrotask.  Each action below is one macrotask with the microtasks it   *)
(* triggers.                                                               *)
(***************************************************************************)
EXTENDS Integers, Sequences, FiniteSets, TLC

\* ------------------------------------------------------------------ bounds
MaxCalls == 2          \* logical calls the user makes in one behaviour
MaxNow   == 1          \* last instant of the clock (seconds)
MaxListeners == 2      \* listener functions that exist
MaxNotes == 2          \* snapshots kept per listener

\* --------------------------------------------------------------- constants
retryAttempts == 3
retryDelay    == 1000

Calls  == 1..MaxCalls
Levels == 0..retryAttempts            \* retryCount of a makeRequest invocation
Frames == Calls \X Levels             \* one makeRequest invocation
NoFrame == <<0, 0>>

RECURSIVE Pow2(_)
Pow2(n) == IF n = 0 THEN 1 ELSE 2 * Pow2(n - 1)

\* n copies of x
RECURSIVE Rep(_, _)
Rep(n, x) == IF n = 0 THEN << >> ELSE <<x>> \o Rep(n - 1, x)

\* ------------------------------------------------------------------ tokens
\* A token is a string; Decode gives what split('.')[1], atob and JSON.parse
\* make of it.  "" stands for null (nothing stored).
NoToken == ""
Tokens  == {"garbage", "a.b.c", "h.noexp.s", "h.exp0.s", "h.exp1.s"}

Decode(token) ==
  CASE token = "garbage"   -> [segments |-> 1, json |-> FALSE, hasExp |-> FALSE, exp |-> 0]
    [] token = "a.b.c"     -> [segments |-> 3, json |-> FALSE, hasExp |-> FALSE, exp |-> 0]
    [] token = "h.noexp.s" -> [segments |-> 3, json |-> TRUE,  hasExp |-> FALSE, exp |-> 0]
    [] token = "h.exp0.s"  -> [segments |-> 3, json |-> TRUE,  hasExp |-> TRUE,  exp |-> 0]
    [] token = "h.exp1.s"  -> [segments |-> 3, json |-> TRUE,  hasExp |-> TRUE,  exp |-> 1]
    [] OTHER               -> [segments |-> 1, json |-> FALSE, hasExp |-> FALSE, exp |-> 0]

\* TokenManager.isTokenExpired: atob/JSON.parse throw -> true; payload.exp
\* undefined -> (undefined < now) is false; else exp < now.
isTokenExpired(token, t) ==
  LET d == Decode(token) IN
  IF d.segments < 2 \/ ~d.json THEN TRUE
  ELSE IF ~d.hasExp THEN FALSE
  ELSE d.exp < t

\* ---------------------------------------------------------------- requests
TOKEN_KEY == "access_token"
StoreKeys == {"access_token", "undefined"}

NoData == [form |-> FALSE, fields |-> "undefined"]
Json(fields)  == [form |-> FALSE, fields |-> fields]
Form(fields)  == [form |-> TRUE,  fields |-> fields]

\* JSON.stringify of params / data: a URLSearchParams object has no own
\* enumerable properties and serialises to "{}".
Stringify(d) == IF d.form THEN "{}" ELSE d.fields

Cfg(name, method, url, params, data) ==
  [name |-> name, method |-> method, url |-> url, params |-> params, data |-> data]

NoOp == Cfg("none", "", "", NoData, NoData)

\* The domain functions the user can invoke, with the config each builds.
Ops ==
  { Cfg("loginInit", "POST", "/auth/login-init", NoData, Form("u1")),
    Cfg("verifyOtp", "POST", "/auth/verify-otp", NoData, Json("otp1")),
    Cfg("logout", "POST", "/auth/logout", NoData, NoData),
    Cfg("bookSeva.getAll", "GET", "/book-seva", Json("p1"), NoData),
    Cfg("bookSeva.getAll", "GET", "/book-seva", Json("p2"), NoData) }

\* Two logins and two code verifications that differ in their bodies.
FormOps ==
  { Cfg("loginInit", "POST", "/auth/login-init", NoData, Form("u1")),
    Cfg("loginInit", "POST", "/auth/login-init", NoData, Form("u2")),
    Cfg("verifyOtp", "POST", "/auth/verify-otp", NoData, Json("otp1")),
    Cfg("verifyOtp", "POST", "/auth/verify-otp", NoData, Json("otp2")) }

\* The mutating domain functions, lines 545-679.
MutOps ==
  { Cfg("bookSeva.create", "POST", "/book-seva", NoData, Json("b1")),
    Cfg("bookSeva.update", "PUT", "/book-seva/1", NoData, Json("b1")),
    Cfg("bookSeva.delete", "DELETE", "/book-seva/1", NoData, NoData),
    Cfg("callingSeva.create", "POST", "/calling-seva", NoData, Json("c1")),
    Cfg("callingSeva.update", "PUT", "/calling-seva/1", NoData, Json("c1")),
    Cfg("callingSeva.delete", "DELETE", "/calling-seva/1", NoData, NoData),
    Cfg("expenses.create", "POST", "/expenses", NoData, Json("e1")),
    Cfg("expenses.update", "PUT", "/expenses/1", NoData, Json("e1")),
    Cfg("expenses.delete", "DELETE", "/expenses/1", NoData, NoData) }

\* toast.success of each mutating function ("" for the functions without one)
successMessage(name) ==
  CASE name = "bookSeva.create"    -> "Book seva created successfully"
    [] name = "bookSeva.update"    -> "Book seva updated successfully"
    [] name = "bookSeva.delete"    -> "Book seva deleted successfully"
    [] name = "callingSeva.create" -> "Calling seva created successfully"
    [] name = "callingSeva.update" -> "Calling seva updated successfully"
    [] name = "callingSeva.delete" -> "Calling seva deleted successfully"
    [] name = "expenses.create"    -> "Expense created successfully"
    [] name = "expenses.update"    -> "Expenses updated successfully"
    [] name = "expenses.delete"    -> "Expense deleted successfully"
    [] OTHER -> ""

generateKey(config) ==
  <<config.method, config.url, Stringify(config.params), Stringify(config.data)>>

loadingKeyOf(config) == <<config.method, config.url>>

Keys        == { generateKey(o) : o \in Ops }
LoadingKeys == { loadingKeyOf(o) : o \in Ops }

\* ------------------------------------------------------- responses, errors
\* A success body: obj = decoded body is a non-null object; data = "absent",
\* "undefined", "null" or "payload"; access_token = the field of the object that is
\* returned to the caller after unwrapping ("" when it has none); msg = its
\* msg field likewise.
BodyWith(obj, data, tok, msg) ==
  [obj |-> obj, data |-> data, access_token |-> tok, msg |-> msg]

Body(obj, data, tok) == BodyWith(obj, data, tok, "")

BodiesOf(o) ==
  IF o.name = "verifyOtp"
  THEN { Body(TRUE, "absent", "h.exp1.s"), Body(TRUE, "payload", "") }
  ELSE IF o.name = "loginInit"
  THEN { BodyWith(TRUE, "absent", "", "OTP sent"), Body(TRUE, "payload", "") }
  ELSE { Body(TRUE, "payload", "") }

\* makeRequest success path, lines 428-438
Unwrap_inOnly(body) ==
  IF body.obj /\ body.data # "absent"
  THEN [from |-> "data", access_token |-> body.access_token, msg |-> body.msg]
  ELSE [from |-> "body", access_token |-> body.access_token, msg |-> body.msg]

Unwrap(body) ==
  IF body.obj /\ body.data # "absent" /\ body.data # "undefined"
  THEN [from |-> "data", access_token |-> body.access_token, msg |-> body.msg]
  ELSE [from |-> "body", access_token |-> body.access_token, msg |-> body.msg]

\* error.response: status and the fields of data that handleError reads
\* ("" stands for an absent or empty field, both falsy).
ResponseWith(status, message, msg, error, errors) ==
  [present |-> TRUE, status |-> status, message |-> message, msg |-> msg,
   error |-> error, errors |-> errors]

NoResponse ==
  [present |-> FALSE, status |-> 0, message |-> "", msg |-> "", error |-> "", errors |-> ""]

Response(status) == ResponseWith(status, "bad input", "", "", "fields")

Statuses == {400, 401, 403, 404, 429, 500, 503}

\* What axios rejects with: an AxiosError, whose response is absent on a
\* transport failure.
AxiosErrors == { [response |-> NoResponse] } \cup { [response |-> Response(s)] : s \in Statuses }

ApiErr(name, message, status, code, details) ==
  [name |-> name, message |-> message, status |-> status, code |-> code, details |-> details]

NoErr == ApiErr("none", "", -1, "", "")

\* line 392: data?.message || data?.msg || data?.error || fallback
serverMessage_noMsg(response) ==
  IF response.message # "" THEN response.message
  ELSE IF response.error # "" THEN response.error
  ELSE "An unexpected error occurred"

serverMessage(response) ==
  IF response.message # "" THEN response.message
  ELSE IF response.msg # "" THEN response.msg
  ELSE IF response.error # "" THEN response.error
  ELSE "An unexpected error occurred"

handleError(error) ==
  IF ~error.response.present
  THEN ApiErr("NetworkError",
              "Network connection failed. Please check your internet connection.",
              0, "NETWORK_ERROR", "")
  ELSE
    LET status  == error.response.status
        message == serverMessage(error.response)
    IN CASE status = 400 -> ApiErr("ValidationError", message, 400, "VALIDATION_ERROR",
                                   error.response.errors)
         [] status = 401 -> ApiErr("AuthenticationError", message, 401, "AUTHENTICATION_ERROR", "")
         [] status = 403 -> ApiErr("AuthorizationError", message, 403, "AUTHORIZATION_ERROR", "")
         [] status = 404 -> ApiErr("NotFoundError", message, 404, "NOT_FOUND", "")
         [] status = 429 -> ApiErr("ApiServiceError", "Too many requests. Please try again later.",
                                   429, "RATE_LIMIT_EXCEEDED", "")
         [] status \in {500, 502, 503, 504} ->
                            ApiErr("ServerError",
                                   "Server is currently unavailable. Please try again later.",
                                   500, "SERVER_ERROR", "")
         [] OTHER -> ApiErr("ApiServiceError", message, status, "", "")

\* error.response as the executor's catch block reads it: the property of
\* the caught object, undefined when the object has no such property.
ResponseOf(error) ==
  IF "response" \in DOMAIN error THEN error.response ELSE NoResponse

\* makeRequest catch block, lines 442-444
shouldRetry(error) ==
  ~ResponseOf(error).present \/ ResponseOf(error).status >= 500

\* backoff delay, line 447
backoffDelay_linear(retryCount) == retryDelay * retryCount

backoffDelay(retryCount) == retryDelay * Pow2(retryCount)

\* ------------------------------------------------------------------- state
VARIABLES
  localStorage,     \* StoreKeys -> token or NoToken
  now,              \* the clock, seconds
  pathname,         \* window.location.pathname
  navigations,      \* number of forced navigations to "/"
  loadingStates,    \* LoadingManager.loadingStates: loading key -> BOOLEAN (partial)
  pendingRequests,  \* RequestQueue.pendingRequests: key -> frame that owns the promise
  callOp,           \* call -> the config it was made with (NoOp: not yet made)
  frame,            \* call -> level -> the makeRequest invocation
  netCount,         \* call -> network requests issued for it
  toasts,           \* call -> sequence of notifications emitted for it
  since401,         \* history: "no", or what the last 401 found in the store
                    \* ("empty" / "token") when setToken has not run since
  tokenCleared,     \* history: call -> removeToken ran after this logout call was made
  listeners,        \* LoadingManager.listeners
  notified,         \* listener -> the snapshots it was called with since it subscribed
  pure,             \* the last direct call of a utility function, with its result
  opResult,         \* call -> how the promise of the domain function settled
  ui                \* the Auth component and the page: step, loading, view, and the
                    \* calls its handlers await

vars == <<localStorage, now, pathname, navigations, loadingStates, pendingRequests,
          callOp, frame, netCount, toasts, since401, tokenCleared, listeners, notified,
          pure, opResult, ui>>

Listeners == 1..MaxListeners

NoPure == [fn |-> "none"]

NoResult == [ok |-> FALSE, val |-> Unwrap(Body(FALSE, "absent", "")), err |-> NoErr]

\* st: "idle"     not invoked
\*     "net"      owns a pending promise, its network attempt is in flight
\*     "backoff"  owns a pending promise, its executor waits on the timer
\*     "child"    owns a pending promise, its executor returned makeRequest(config, level + 1)
\*     "joined"   awaits the pending promise of frame `awaits`
\*     "resolved" / "rejected"  settled with `result`
IdleFrame ==
  [st |-> "idle", awaits |-> NoFrame, result |-> NoResult, caught |-> NoErr,
   delay |-> 0, auth |-> NoToken, failed |-> "none", after401 |-> FALSE, removed |-> 0]

\* ------------------------------------------------------------- TokenManager
setToken(store, token) == [store EXCEPT ![TOKEN_KEY] = token]

removeToken_wrongKey(store) == [store EXCEPT !["undefined"] = NoToken]

removeToken(store) == [store EXCEPT ![TOKEN_KEY] = NoToken]

getToken == localStorage[TOKEN_KEY]

Init ==
  /\ localStorage \in { [k \in StoreKeys |-> IF k = TOKEN_KEY THEN t ELSE NoToken] :
                          t \in {NoToken, "h.exp0.s"} }
  /\ now = 0
  /\ pathname \in {"/", "/login"}
  /\ navigations = 0
  /\ loadingStates = << >>
  /\ pendingRequests = << >>
  /\ callOp = [c \in Calls |-> NoOp]
  /\ frame = [c \in Calls |-> [r \in Levels |-> IdleFrame]]
  /\ netCount = [c \in Calls |-> 0]
  /\ toasts = [c \in Calls |-> << >>]
  /\ since401 = "no"
  /\ tokenCleared = [c \in Calls |-> FALSE]
  /\ listeners = {}
  /\ notified = [l \in Listeners |-> << >>]
  /\ pure = NoPure
  /\ opResult = [c \in Calls |-> [st |-> "pending", result |-> NoResult]]
  /\ ui = [step |-> "login", loading |-> FALSE, waiting |-> {},
           view |-> IF localStorage[TOKEN_KEY] # NoToken THEN "dashboard" ELSE "login"]

\* ------------------------------------------------------------ LoadingManager
setLoading_keep(states, key, loading) == states

setLoading(states, key, loading) ==
  [k \in DOMAIN states \cup {key} |-> IF k = key THEN loading ELSE states[k]]

\* notifyListeners, lines 276-279, called n times with the same registry
notifyListeners(log, states, n) ==
  [l \in Listeners |-> IF l \in listeners THEN log[l] \o Rep(n, states) ELSE log[l]]

isLoading(key) == IF key \in DOMAIN loadingStates THEN loadingStates[key] ELSE FALSE

\* ------------------------------------------------------- request interceptor
isAuthEndpoint_loginOnly(config) ==
  config.url = "/auth/login-init"

isAuthEndpoint(config) ==
  config.url = "/auth/login-init" \/ config.url = "/auth/verify-otp"

\* The Authorization header the interceptor puts on the request: the token
\* after "Bearer ", or NoToken when it sets no header.
authHeader(config) ==
  LET token == getToken IN
  IF token # NoToken /\ ~isTokenExpired(token, now) /\ ~isAuthEndpoint(config)
  THEN token ELSE NoToken

\* ------------------------------------------------- makeRequest / deduplicate
\* makeRequest(config, r) up to its first suspension: setLoading(key, true),
\* then deduplicate: join the pending promise of the key, or run the executor
\* (which sends the request) and store its promise.  fb is frame with the
\* caller's own changes applied.
\* deduplicate, line 294: this.pendingRequests.has(key)
hasPending_never(pending, key) == FALSE

hasPending(pending, key) == key \in DOMAIN pending

StartRequest(c, r, config, fb) ==
  LET key    == generateKey(config)
      has    == hasPending(pendingRequests, key)
  IN /\ loadingStates' = setLoading(loadingStates, loadingKeyOf(config), TRUE)
     /\ notified' = notifyListeners(notified, loadingStates', 1)
     /\ frame' = [fb EXCEPT ![c][r] =
                    IF has
                    THEN [IdleFrame EXCEPT !.st = "joined", !.awaits = pendingRequests[key]]
                    ELSE [IdleFrame EXCEPT !.st = "net", !.awaits = <<c, r>>,
                                           !.auth = authHeader(config),
                                           !.after401 = (since401 # "no")]]
     /\ pendingRequests' =
          IF has THEN pendingRequests
          ELSE [k \in DOMAIN pendingRequests \cup {key} |->
                  IF k = key THEN <<c, r>> ELSE pendingRequests[k]]
     /\ netCount' = IF has THEN netCount ELSE [netCount EXCEPT ![c] = @ + 1]

\* The makeRequest invocations that settle when the executor promise of
\* frame p settles: p itself, every invocation that joined a promise that
\* settles, and the parent of every retry invocation that settles (the
\* parent's executor returned that invocation's promise).
RECURSIVE SettleSet(_)
SettleSet(S) ==
  LET joiners == { f \in Frames : /\ frame[f[1]][f[2]].st = "joined"
                                  /\ frame[f[1]][f[2]].awaits \in S }
      parents == { <<f[1], f[2] - 1>> : f \in { g \in S : g[2] > 0 } }
      S2      == S \cup joiners \cup parents
  IN IF S2 = S THEN S ELSE SettleSet(S2)

IsOwner(f) == frame[f[1]][f[2]].st \in {"net", "backoff", "child"}

\* deduplicate's finally, lines 300-302
finallyDelete_never(pending, keys) == pending

finallyDelete(pending, keys) == [k \in DOMAIN pending \ keys |-> pending[k]]

ErrorToast(err) == [type |-> "error", message |-> err.message]

SuccessToast(name) == [type |-> "success", message |-> successMessage(name)]

\* authApi.verifyOtp, line 521: if (response.access_token)
hasAccessToken_never(response) == FALSE

hasAccessToken(response) == response.access_token # ""

\* The toasts of a domain function after its apiClient call settled: on
\* success the functions with a success message emit it; on failure they
\* rethrow and emit nothing.
wrapperToasts_never(name, outcome) == << >>

wrapperToasts(name, outcome) ==
  IF outcome.ok /\ successMessage(name) # "" THEN <<SuccessToast(name)>> ELSE << >>

\* How the promise of the domain function settles: every function returns
\* the response or lets the error through (catch { throw error }).
wrapperResult(name, outcome) ==
  [st |-> IF outcome.ok THEN "resolved" ELSE "rejected", result |-> outcome]

\* The continuations of the Auth handlers awaiting the calls in done, which
\* settled with outcome (Auth.tsx lines 78-97, 110-128, 143-152), with
\* onSuccessfulLogin = Page.handleSuccessfulLogin.  waiting holds <<call, handler>>.
authContinue(u, done, outcome) ==
  LET by(h) == \E w \in done : w[2] = h IN
  IF done = {} THEN u
  ELSE [step    |-> IF by("login") /\ outcome.ok /\ outcome.val.msg = "OTP sent"
                    THEN "otp" ELSE u.step,
        view    |-> IF by("otp") /\ outcome.ok /\ outcome.val.access_token # ""
                    THEN "dashboard" ELSE u.view,
        loading |-> FALSE,
        waiting |-> u.waiting \ done]

\* The executor promise of frame p settles with outcome: the finally of
\* deduplicate deletes the key, each awaiting makeRequest runs its catch
\* (typed error, toast unless 401) and its finally (setLoading false), and
\* the authApi wrappers continue.  fb, ls, s401 and tc are frame,
\* localStorage, since401 and tokenCleared with the response interceptor's
\* changes applied.
Settle(p, outcome, fb, ls, s401, tc) ==
  LET T       == SettleSet({p})
      owners  == { f \in T : IsOwner(f) }
      delKeys == { generateKey(callOp[f[1]]) : f \in owners }
      lkeys   == { loadingKeyOf(callOp[f[1]]) : f \in T }
      top(n)  == { c \in Calls : <<c, 0>> \in T /\ callOp[c].name = n }
      stored  == top("verifyOtp") # {} /\ outcome.ok /\ hasAccessToken(outcome.val)
      cleared == top("logout") # {}
  IN /\ frame' = [c \in Calls |-> [r \in Levels |->
                    IF <<c, r>> \in T
                    THEN [fb[c][r] EXCEPT !.st = IF outcome.ok THEN "resolved" ELSE "rejected",
                                          !.result = outcome,
                                          !.removed = IF <<c, r>> \in owners THEN @ + 1 ELSE @]
                    ELSE fb[c][r]]]
     /\ pendingRequests' = finallyDelete(pendingRequests, delKeys)
     /\ loadingStates' = [k \in DOMAIN loadingStates |->
                            IF k \in lkeys THEN FALSE ELSE loadingStates[k]]
     /\ notified' = notifyListeners(notified, loadingStates', Cardinality(T))
     /\ toasts' = [c \in Calls |->
                     ( IF ~outcome.ok /\ outcome.err.status # 401
                       THEN toasts[c] \o Rep(Cardinality({f \in T : f[1] = c}),
                                             ErrorToast(outcome.err))
                       ELSE toasts[c] )
                     \o ( IF <<c, 0>> \in T THEN wrapperToasts(callOp[c].name, outcome)
                          ELSE << >> )]
     /\ opResult' = [c \in Calls |->
                       IF <<c, 0>> \in T THEN wrapperResult(callOp[c].name, outcome)
                       ELSE opResult[c]]
     /\ localStorage' = IF stored THEN setToken(ls, outcome.val.access_token)
                        ELSE IF cleared THEN removeToken(ls)
                        ELSE ls
     /\ since401' = IF stored THEN "no" ELSE s401
     /\ tokenCleared' = [c \in Calls |->
                           IF cleared /\ callOp[c].name = "logout" THEN TRUE ELSE tc[c]]
     /\ ui' = authContinue(ui, { w \in ui.waiting : <<w[1], 0>> \in T }, outcome)

\* ------------------------------------------------------------------ actions
\* The user invokes a domain function: get / post build the config and call
\* makeRequest(config, 0).
Invoke(c, o) ==
  /\ callOp[c] = NoOp
  /\ \A d \in Calls : d < c => callOp[d] # NoOp
  /\ callOp' = [callOp EXCEPT ![c] = o]
  /\ StartRequest(c, 0, o, frame)
  /\ UNCHANGED <<localStorage, now, pathname, navigations, toasts, since401, tokenCleared,
                 listeners, pure, opResult>>

Call(c, o) == Invoke(c, o) /\ UNCHANGED ui

\* The network attempt of frame <<c, r>> returns a 2xx response.
NetSuccess(c, r, body) ==
  /\ frame[c][r].st = "net"
  /\ body \in BodiesOf(callOp[c])
  /\ Settle(<<c, r>>, [ok |-> TRUE, val |-> Unwrap(body), err |-> NoErr],
            frame, localStorage, since401, tokenCleared)
  /\ UNCHANGED <<now, pathname, navigations, callOp, netCount, listeners, pure>>

\* history kept in the frame: how its network attempt failed
FailureClass(error) ==
  IF ~error.response.present THEN "transport"
  ELSE IF error.response.status >= 500 THEN "server"
  ELSE IF error.response.status = 401 THEN "auth"
  ELSE "client"

\* originalRequest._retry, line 373: no code assigns it, so it reads undefined.
originalRequest_retry_set == TRUE

originalRequest_retry == FALSE

\* The network attempt of frame <<c, r>> fails: axios rejects with error.
\* The response interceptor (lines 369-381) de-authenticates on 401 and
\* throws the typed error; the executor's catch (lines 439-453) either
\* starts the backoff timer or rethrows, which settles the promise.
NetFail(c, r, error) ==
  LET is401 == /\ error.response.present
               /\ error.response.status = 401
               /\ ~originalRequest_retry
      ls    == IF is401 THEN removeToken(localStorage) ELSE localStorage
      s401  == IF is401 THEN (IF getToken = NoToken THEN "empty" ELSE "token") ELSE since401
      tc    == [d \in Calls |-> IF is401 /\ callOp[d].name = "logout" THEN TRUE
                                 ELSE tokenCleared[d]]
      nav   == is401 /\ pathname # "/login"
      typed == handleError(error)
      fb    == [frame EXCEPT ![c][r].caught = typed, ![c][r].failed = FailureClass(error)]
  IN /\ frame[c][r].st = "net"
     /\ pathname' = IF nav THEN "/" ELSE pathname
     /\ navigations' = IF nav THEN navigations + 1 ELSE navigations
     /\ IF r < retryAttempts /\ shouldRetry(typed)
        THEN /\ frame' = [fb EXCEPT ![c][r].st = "backoff", ![c][r].delay = backoffDelay(r)]
             /\ localStorage' = ls
             /\ since401' = s401
             /\ tokenCleared' = tc
             /\ UNCHANGED <<loadingStates, pendingRequests, toasts, notified, opResult, ui>>
        ELSE Settle(<<c, r>>, [ok |-> FALSE, val |-> NoResult.val, err |-> typed],
                    fb, ls, s401, tc)
     /\ UNCHANGED <<now, callOp, netCount, listeners, pure>>

\* The backoff timer of frame <<c, r>> expires: the executor returns
\* this.makeRequest(config, retryCount + 1), line 449.
TimerFire(c, r) ==
  /\ frame[c][r].st = "backoff"
  /\ r < retryAttempts
  /\ StartRequest(c, r + 1, callOp[c],
                  [frame EXCEPT ![c][r].st = "child", ![c][r].caught = NoErr])
  /\ UNCHANGED <<localStorage, now, pathname, navigations, callOp, toasts, since401,
                 tokenCleared, listeners, pure, opResult, ui>>

\* Time passes.
Tick ==
  /\ now < MaxNow
  /\ now' = now + 1
  /\ UNCHANGED <<localStorage, pathname, navigations, loadingStates, pendingRequests,
                 callOp, frame, netCount, toasts, since401, tokenCleared, listeners,
                 notified, pure, opResult, ui>>

Next ==
  \/ \E c \in Calls, o \in Ops : Call(c, o)
  \/ \E c \in Calls, r \in Levels, b \in UNION { BodiesOf(o) : o \in Ops } : NetSuccess(c, r, b)
  \/ \E c \in Calls, r \in Levels, e \in AxiosErrors : NetFail(c, r, e)
  \/ \E c \in Calls, r \in Levels : TimerFire(c, r)
  \/ Tick

Spec == Init /\ [][Next]_vars

\* The same client driven with the operations O and the failures E.
NextOver(O, E) ==
  \/ \E c \in Calls, o \in O : Call(c, o)
  \/ \E c \in Calls, r \in Levels, b \in UNION { BodiesOf(o) : o \in O } : NetSuccess(c, r, b)
  \/ \E c \in Calls, r \in Levels, e \in E : NetFail(c, r, e)
  \/ \E c \in Calls, r \in Levels : TimerFire(c, r)
  \/ Tick

NextForms == NextOver(FormOps, AxiosErrors)

SpecForms == Init /\ [][NextForms]_vars

\* ---------------------------------------------- direct calls of the functions
PureStatuses == {400, 401, 403, 404, 429, 500, 502, 503, 504, 418, 501}

PureErrors ==
  { [response |-> NoResponse] } \cup
  { [response |-> ResponseWith(st, m, g, e, d)] :
      st \in PureStatuses, m \in {"", "bad input"}, g \in {"", "try later"},
      e \in {"", "failed"}, d \in {"", "fields"} }

PureBodies ==
  { Body(TRUE, dt, tk) : dt \in {"absent", "undefined", "null", "payload"},
                         tk \in {"", "h.exp1.s"} }
  \cup { Body(FALSE, "absent", "") }

Others == <<localStorage, now, pathname, navigations, loadingStates, pendingRequests,
            callOp, frame, netCount, toasts, since401, tokenCleared, listeners, notified,
            opResult, ui>>

ApplyHandleError(error) ==
  /\ pure' = [fn |-> "handleError", in |-> error, out |-> handleError(error)]
  /\ UNCHANGED Others

ApplyIsTokenExpired(token, t) ==
  /\ pure' = [fn |-> "isTokenExpired", in |-> [token |-> token, now |-> t],
              out |-> isTokenExpired(token, t)]
  /\ UNCHANGED Others

ApplyUnwrap(body) ==
  /\ pure' = [fn |-> "unwrap", in |-> body, out |-> Unwrap(body)]
  /\ UNCHANGED Others

NextPure ==
  \/ \E e \in PureErrors : ApplyHandleError(e)
  \/ \E token \in Tokens, t \in 0..MaxNow : ApplyIsTokenExpired(token, t)
  \/ \E b \in PureBodies : ApplyUnwrap(b)

PureSpec == Init /\ [][NextPure]_vars

\* ------------------------------------------- token store, called directly
\* The static methods are reached as TokenManager.f() by the client and as
\* apiUtils.f() by the components (lines 698-703 copy the unbound methods).
Receivers == {"TokenManager", "apiUtils"}

\* this.TOKEN_KEY: apiUtils has no TOKEN_KEY, and a Storage key of undefined
\* is the string "undefined".
thisTOKEN_KEY(receiver) ==
  IF receiver = "TokenManager" THEN TOKEN_KEY ELSE "undefined"

StoreTokens == {"h.exp0.s", "h.exp1.s"}

NotToken == <<pathname, now, navigations, loadingStates, pendingRequests, callOp, frame,
              netCount, toasts, since401, tokenCleared, listeners, notified, opResult, ui>>

SetTokenVia(receiver, token) ==
  /\ localStorage' = [localStorage EXCEPT ![thisTOKEN_KEY(receiver)] = token]
  /\ pure' = [fn |-> "setToken", via |-> receiver, in |-> token]
  /\ UNCHANGED NotToken

RemoveTokenVia(receiver) ==
  /\ localStorage' = [localStorage EXCEPT ![thisTOKEN_KEY(receiver)] = NoToken]
  /\ pure' = [fn |-> "removeToken", via |-> receiver]
  /\ UNCHANGED NotToken

GetTokenVia(receiver) ==
  /\ pure' = [fn |-> "getToken", via |-> receiver,
              out |-> localStorage[thisTOKEN_KEY(receiver)]]
  /\ UNCHANGED localStorage
  /\ UNCHANGED NotToken

\* apiUtils.isAuthenticated, lines 692-695: reads through TokenManager
isAuthenticated ==
  IF getToken # NoToken THEN ~isTokenExpired(getToken, now) ELSE FALSE

IsAuthenticated ==
  /\ pure' = [fn |-> "isAuthenticated", out |-> isAuthenticated]
  /\ UNCHANGED localStorage
  /\ UNCHANGED NotToken

NextToken ==
  \/ \E rc \in Receivers, token \in StoreTokens : SetTokenVia(rc, token)
  \/ \E rc \in Receivers : RemoveTokenVia(rc)
  \/ \E rc \in Receivers : GetTokenVia(rc)
  \/ IsAuthenticated
  \/ Tick

TokenSpec == Init /\ [][NextToken]_vars

\* -------------------------------------- loading registry, called directly
SomeKeys == { loadingKeyOf(o) : o \in FormOps }

\* this.loadingStates and this.listeners exist on the class only: apiUtils
\* (lines 685-690) holds the unbound isLoading and subscribe.
LoadingReceivers == {"LoadingManager", "apiUtils"}

hasStatics(receiver) == receiver = "LoadingManager"

Returned(value) == [threw |-> FALSE, value |-> value]
TypeError       == [threw |-> TRUE,  value |-> FALSE]

NotLoading == <<localStorage, now, pathname, navigations, pendingRequests, callOp, frame,
                netCount, toasts, since401, tokenCleared, opResult, ui>>

SetLoading(key, loading) ==
  /\ \A l \in listeners : Len(notified[l]) < MaxNotes
  /\ loadingStates' = setLoading(loadingStates, key, loading)
  /\ notified' = notifyListeners(notified, loadingStates', 1)
  /\ pure' = [fn |-> "setLoading", in |-> [key |-> key, loading |-> loading]]
  /\ UNCHANGED listeners
  /\ UNCHANGED NotLoading

IsLoadingVia(receiver, key) ==
  /\ pure' = [fn |-> "isLoading", via |-> receiver, in |-> key,
              out |-> IF hasStatics(receiver) THEN Returned(isLoading(key)) ELSE TypeError]
  /\ UNCHANGED <<loadingStates, listeners, notified>>
  /\ UNCHANGED NotLoading

SubscribeVia(receiver, l) ==
  /\ listeners' = IF hasStatics(receiver) THEN listeners \cup {l} ELSE listeners
  /\ pure' = [fn |-> "subscribe", via |-> receiver,
              out |-> IF hasStatics(receiver) THEN Returned(TRUE) ELSE TypeError]
  /\ UNCHANGED <<loadingStates, notified>>
  /\ UNCHANGED NotLoading

Unsubscribe(l) ==
  /\ l \in listeners
  /\ listeners' = listeners \ {l}
  /\ notified' = [notified EXCEPT ![l] = << >>]
  /\ pure' = [fn |-> "unsubscribe"]
  /\ UNCHANGED loadingStates
  /\ UNCHANGED NotLoading

NextLoading ==
  \/ \E k \in SomeKeys, b \in BOOLEAN : SetLoading(k, b)
  \/ \E rc \in LoadingReceivers, k \in SomeKeys : IsLoadingVia(rc, k)
  \/ \E rc \in LoadingReceivers, l \in Listeners : SubscribeVia(rc, l)
  \/ \E l \in Listeners : Unsubscribe(l)

LoadingSpec == Init /\ [][NextLoading]_vars

\* --------------------------------------------- the login form (Auth.tsx)
\* The form is shown while the page's view is "login"; its inputs and
\* buttons are disabled while loading.
LoginOps == { o \in FormOps : o.name = "loginInit" }
OtpOps   == { o \in FormOps : o.name = "verifyOtp" }

FormReady(step) == ui.view = "login" /\ ui.step = step /\ ~ui.loading

Submit(c, o, handler) ==
  /\ Invoke(c, o)
  /\ ui' = [ui EXCEPT !.loading = TRUE, !.waiting = @ \cup {<<c, handler>>}]

HandleLoginSubmit(c, o) == FormReady("login") /\ o \in LoginOps /\ Submit(c, o, "login")

HandleOtpSubmit(c, o) == FormReady("otp") /\ o \in OtpOps /\ Submit(c, o, "otp")

HandleResendOtp(c, o) == FormReady("otp") /\ o \in LoginOps /\ Submit(c, o, "resend")

HandleBackToLogin ==
  /\ FormReady("otp")
  /\ ui' = [ui EXCEPT !.step = "login"]
  /\ UNCHANGED <<localStorage, now, pathname, navigations, loadingStates, pendingRequests,
                 callOp, frame, netCount, toasts, since401, tokenCleared, listeners,
                 notified, pure, opResult>>

NextLogin ==
  \/ \E c \in Calls, o \in FormOps : HandleLoginSubmit(c, o)
  \/ \E c \in Calls, o \in FormOps : HandleOtpSubmit(c, o)
  \/ \E c \in Calls, o \in FormOps : HandleResendOtp(c, o)
  \/ HandleBackToLogin
  \/ \E c \in Calls, r \in Levels, b \in UNION { BodiesOf(o) : o \in FormOps } :
        NetSuccess(c, r, b)
  \/ \E c \in Calls, r \in Levels, e \in AxiosErrors : NetFail(c, r, e)
  \/ \E c \in Calls, r \in Levels : TimerFire(c, r)
  \/ Tick

LoginSpec == Init /\ [][NextLogin]_vars

MutErrors == { [response |-> Response(400)], [response |-> Response(500)] }

NextMut == NextOver(MutOps, MutErrors)

SpecMut == Init /\ [][NextMut]_vars

\* Every network attempt eventually returns and every timer eventually fires.
FairSpec ==
  /\ Spec
  /\ \A c \in Calls, r \in Levels :
       /\ WF_vars(\E b \in UNION { BodiesOf(o) : o \in Ops } : NetSuccess(c, r, b)
                  \/ \E e \in AxiosErrors : NetFail(c, r, e))
       /\ WF_vars(TimerFire(c, r))

TypeOK ==
  /\ now \in 0..MaxNow
  /\ \A c \in Calls : netCount[c] \in 0..(retryAttempts + 1)

\* ------------------------------------------------------------------- claims
Started(c)  == callOp[c] # NoOp
Terminal(c) == frame[c][0].st \in {"resolved", "rejected"}

\* No network attempt is in flight and no timer is pending: nothing can
\* happen to the calls made so far any more.
Quiescent == \A f \in Frames : frame[f[1]][f[2]].st \notin {"net", "backoff"}

\* b was made while the identical call a was in flight, so it joined a's promise
Coalesced(a, b) ==
  /\ a # b /\ Started(a) /\ Started(b)
  /\ frame[b][0].awaits = <<a, 0>>

\* C1: two identical calls in flight together issue exactly one network
\* request, and both settle with the same outcome (checked once nothing
\* more can happen).
C1_CoalescedSettleTogether ==
  \A a, b \in Calls :
    Coalesced(a, b) =>
      /\ netCount[a] = 1 /\ netCount[b] = 0
      /\ Quiescent => /\ Terminal(a) /\ Terminal(b)
                      /\ frame[a][0].st = frame[b][0].st
                      /\ frame[a][0].result = frame[b][0].result

\* C2: every call that was made eventually resolves or rejects, given that
\* every network attempt returns and every timer fires.
C2_EventuallyTerminal ==
  \A c \in Calls : Started(c) ~> Terminal(c)

\* The frames of call c that issued a network attempt.
Attempts(c) == { r \in Levels : frame[c][r].awaits = <<c, r>> }

LastAttempt(c) == CHOOSE r \in Attempts(c) : \A q \in Attempts(c) : q <= r

\* C3: a call whose every attempt fails with a transport failure or a 5xx
\* is attempted exactly 4 times and is then rejected with NetworkError
\* (status 0) or ServerError, by the kind of the last failure.
C3_FourAttemptsThenRejected ==
  \A c \in Calls :
    ( /\ Quiescent
      /\ Attempts(c) # {}
      /\ \A r \in Attempts(c) : frame[c][r].failed \in {"transport", "server"} )
    => /\ netCount[c] = retryAttempts + 1
       /\ frame[c][0].st = "rejected"
       /\ IF frame[c][LastAttempt(c)].failed = "transport"
          THEN /\ frame[c][0].result.err.name = "NetworkError"
               /\ frame[c][0].result.err.status = 0
          ELSE frame[c][0].result.err.name = "ServerError"

\* C4: no call issues more than 4 network attempts, and retry k starts only
\* after the timer of retryDelay * 2^(k-1) that attempt k-1 set has expired.
C4_AttemptBoundAndBackoff ==
  \A c \in Calls :
    /\ netCount[c] <= retryAttempts + 1
    /\ \A k \in 1..retryAttempts :
         /\ frame[c][k - 1].st = "backoff" =>
              /\ frame[c][k].st = "idle"
              /\ frame[c][k - 1].delay = retryDelay * Pow2(k - 1)
         /\ frame[c][k].st # "idle" =>
              /\ frame[c][k - 1].st \notin {"idle", "net", "backoff"}
              /\ frame[c][k - 1].delay = retryDelay * Pow2(k - 1)

C4_Witness ==
  \E c \in Calls : frame[c][1].st # "idle" /\ frame[c][0].delay = 1000

\* C5: an attempt that failed with a 400, 401, 403, 404 or 429 response is
\* followed by no backoff delay and no retry: its call is rejected at once.
C5_ClientErrorsNotRetried ==
  \A c \in Calls, r \in Levels :
    frame[c][r].failed \in {"client", "auth"} =>
      /\ frame[c][r].st = "rejected"
      /\ frame[c][r].delay = 0
      /\ r < retryAttempts => frame[c][r + 1].st = "idle"

\* C6: after a 401 response the store holds no credential until setToken
\* runs again, and every request sent meanwhile has no Authorization header.
C6_NoCredentialAfter401 ==
  /\ since401 # "no" => getToken = NoToken
  /\ \A c \in Calls, r \in Levels : frame[c][r].after401 => frame[c][r].auth = NoToken

C6_Witness ==
  /\ since401 = "token"
  /\ \E c \in Calls : /\ frame[c][0].after401
                       /\ frame[c][0].awaits = <<c, 0>>
                       /\ ~isAuthEndpoint(callOp[c])
                       /\ frame[c][0].auth = NoToken

\* The frame <<c, r>> sends its request in this step.
Sends(c, r) == frame[c][r].st = "idle" /\ frame'[c][r].st = "net"

\* C7: a request carries "Bearer <token>" exactly when, as it is sent, a
\* credential is stored, is not expired, and the url is not a bootstrap
\* endpoint; requests to the bootstrap endpoints never carry a token.
C7_BearerIffStoredFreshNotBootstrap ==
  /\ [][ \A c \in Calls, r \in Levels :
           Sends(c, r) =>
             frame'[c][r].auth =
               IF /\ getToken # NoToken
                  /\ ~isTokenExpired(getToken, now)
                  /\ callOp'[c].url \notin {"/auth/login-init", "/auth/verify-otp"}
               THEN getToken ELSE NoToken ]_vars
  /\ [](\A c \in Calls, r \in Levels :
           callOp[c].url \in {"/auth/login-init", "/auth/verify-otp"}
             => frame[c][r].auth = NoToken)

C7_Witness ==
  \E c, d \in Calls :
    /\ frame[c][0].auth # NoToken
    /\ callOp[d].url = "/auth/verify-otp"
    /\ frame[d][0].st = "net"
    /\ getToken # NoToken /\ ~isTokenExpired(getToken, now)

\* C8: once logout() was invoked, removeToken runs whatever the outcome of
\* the logout request (checked once nothing more can happen).
C8_LogoutClearsToken ==
  \A c \in Calls :
    (callOp[c].name = "logout" /\ Quiescent) => tokenCleared[c]

\* C9: the loading flag of a call's key, set when the call starts, is false
\* again after the call, whatever its outcome (checked once nothing more can
\* happen).
C9_LoadingFlagCleared ==
  \A c \in Calls :
    Started(c) =>
      /\ loadingKeyOf(callOp[c]) \in DOMAIN loadingStates
      /\ Quiescent => ~isLoading(loadingKeyOf(callOp[c]))

\* The frame owns (created) a pending promise that has not settled.
Unsettled(f) == IsOwner(f) /\ frame[f[1]][f[2]].awaits = f

\* C11: two calls in flight together that differ in method, url, params or
\* body are not coalesced: each sends its own request and has its own
\* result; so for two form-encoded logins with different credentials.
C11_DifferentRequestsNotCoalesced ==
  \A b \in Calls :
    Started(b) =>
      LET a == frame[b][0].awaits[1] IN
      /\ callOp[a].method = callOp[b].method
      /\ callOp[a].url = callOp[b].url
      /\ callOp[a].params = callOp[b].params
      /\ callOp[a].data = callOp[b].data

\* C10: the map holds a key exactly while the request that created the
\* entry is unsettled; the entry is removed once, when it settles; a call
\* only joins an unsettled request (a later identical call sends its own);
\* when all calls have finished the map is empty.
C10_EntryExactlyWhileUnsettled ==
  /\ [](\A k \in Keys :
          /\ k \in DOMAIN pendingRequests <=>
               \E f \in Frames : Unsettled(f) /\ generateKey(callOp[f[1]]) = k
          /\ k \in DOMAIN pendingRequests =>
               /\ Unsettled(pendingRequests[k])
               /\ generateKey(callOp[pendingRequests[k][1]]) = k)
  /\ [](\A f \in Frames :
          LET fr == frame[f[1]][f[2]] IN
          /\ fr.removed = IF fr.awaits = f /\ fr.st \in {"resolved", "rejected"} THEN 1 ELSE 0
          /\ fr.awaits = f => netCount[f[1]] >= 1)
  /\ []((\A c \in Calls : Started(c) => Terminal(c)) => DOMAIN pendingRequests = {})
  /\ [][ \A c \in Calls :
           (frame[c][0].st = "idle" /\ frame'[c][0].st = "joined")
             => Unsettled(frame'[c][0].awaits) ]_vars

C10_Witness ==
  \E a, b \in Calls :
    /\ a < b
    /\ generateKey(callOp[a]) = generateKey(callOp[b])
    /\ Terminal(a) /\ Terminal(b)
    /\ frame[a][0].removed = 1 /\ frame[b][0].removed = 1
    /\ netCount[a] = 1 /\ netCount[b] = 1
    /\ DOMAIN pendingRequests = {}

\* The call's request (its own or the one it joined) had a failed attempt
\* and the call has not resolved.
CallFailed(c) ==
  /\ Started(c)
  /\ frame[c][0].st # "resolved"
  /\ \E r \in Levels : frame[frame[c][0].awaits[1]][r].failed # "none"

\* How the last attempt of the call's request failed.
LastFailure(c) ==
  LET o == frame[c][0].awaits[1] IN frame[o][LastAttempt(o)].failed

ErrorFamily ==
  {"NetworkError", "ValidationError", "AuthenticationError", "AuthorizationError",
   "NotFoundError", "ServerError", "ApiServiceError"}

\* C12: a call that fails rejects with one ApiServiceError-family value
\* (checked once nothing more can happen), and nothing else is ever thrown
\* to a caller.
C12_FailuresRejectTyped ==
  /\ \A c \in Calls, r \in Levels :
       frame[c][r].st = "rejected" => frame[c][r].result.err.name \in ErrorFamily
  /\ \A c \in Calls :
       (Quiescent /\ CallFailed(c)) =>
          /\ frame[c][0].st = "rejected"
          /\ opResult[c].st = "rejected"
          /\ opResult[c].result.err.name \in ErrorFamily

\* verifyOtp call c resolves / has its attempt fail in this step
Resolves(c) == frame[c][0].st # "resolved" /\ frame'[c][0].st = "resolved"
AttemptFails(c) == frame[c][0].st = "net" /\ frame'[c][0].st \in {"backoff", "rejected"}

\* C16: when verifyOtp resolves with access_token a the store holds a as the
\* caller continues; when the response has no access_token, or the attempt
\* fails, verifyOtp writes nothing (a 401 makes the interceptor remove the
\* credential).
C16_VerifyOtpStoresBeforeReturn ==
  [][ \A c \in Calls :
        callOp[c].name = "verifyOtp" =>
          /\ Resolves(c) =>
               /\ opResult'[c].st = "resolved"
               /\ localStorage'[TOKEN_KEY] =
                    IF opResult'[c].result.val.access_token # ""
                    THEN opResult'[c].result.val.access_token
                    ELSE localStorage[TOKEN_KEY]
          /\ AttemptFails(c) =>
               localStorage'[TOKEN_KEY] =
                 IF frame'[c][0].failed = "auth" THEN NoToken ELSE localStorage[TOKEN_KEY] ]_vars

C16_Witness ==
  \E c \in Calls :
    /\ callOp[c].name = "verifyOtp"
    /\ opResult[c].st = "resolved"
    /\ opResult[c].result.val.access_token = "h.exp1.s"
    /\ getToken = "h.exp1.s"

IsErrorToast(t) == t.type = "error"

\* C17: a call that fails with a status other than 401 is rejected and an
\* error notification with the error's message is emitted for it; a call
\* that fails with 401 gets no error notification (checked once nothing
\* more can happen).
C17_ErrorToastUnless401 ==
  \A c \in Calls :
    (Quiescent /\ CallFailed(c)) =>
      IF LastFailure(c) = "auth"
      THEN \A i \in DOMAIN toasts[c] : ~IsErrorToast(toasts[c][i])
      ELSE /\ frame[c][0].st = "rejected"
           /\ \E i \in DOMAIN toasts[c] : toasts[c][i] = ErrorToast(frame[c][0].result.err)

SuccessToasts(c) == SelectSeq(toasts[c], LAMBDA t : t.type = "success")

\* C19: a mutating operation emits its success notification exactly when
\* its call resolved, and when its call rejects the operation rejects with
\* the same typed error.
C19_SuccessToastIffResolved ==
  \A c \in Calls :
    successMessage(callOp[c].name) # "" =>
      /\ SuccessToasts(c) = IF frame[c][0].st = "resolved"
                            THEN <<SuccessToast(callOp[c].name)>> ELSE << >>
      /\ opResult[c].st = "resolved" <=> frame[c][0].st = "resolved"
      /\ frame[c][0].st = "rejected" =>
           /\ opResult[c].st = "rejected"
           /\ opResult[c].result = frame[c][0].result

C19_Witness ==
  \E a, b \in Calls :
    /\ callOp[a].name = "expenses.update"
    /\ frame[a][0].st = "resolved"
    /\ SuccessToasts(a) = <<[type |-> "success", message |-> "Expenses updated successfully"]>>
    /\ callOp[b].name = "bookSeva.delete"
    /\ frame[b][0].failed # "none"
    /\ toasts[b] = << >>

\* The kind of a typed error.
KindOf(err) ==
  CASE err.name = "NetworkError"        -> "Network"
    [] err.name = "ValidationError"     -> "Validation"
    [] err.name = "AuthenticationError" -> "Authentication"
    [] err.name = "AuthorizationError"  -> "Authorization"
    [] err.name = "NotFoundError"       -> "NotFound"
    [] err.name = "ServerError"         -> "Server"
    [] err.name = "ApiServiceError" /\ err.code = "RATE_LIMIT_EXCEEDED" -> "RateLimited"
    [] OTHER -> "Generic"

\* C13: handleError maps no response to Network (status 0), 400 to
\* Validation with the body's errors as details, 401, 403, 404, 429 to
\* Authentication, Authorization, NotFound, RateLimited, 500/502/503/504 to
\* Server, and any other status to Generic with the server's message
\* (message, else msg, else error) or the fallback string.
C13_HandleErrorClassifies ==
  pure.fn = "handleError" =>
    LET r == pure.in.response
        o == pure.out
    IN IF ~r.present THEN KindOf(o) = "Network" /\ o.status = 0
       ELSE CASE r.status = 400 -> KindOf(o) = "Validation" /\ o.details = r.errors
              [] r.status = 401 -> KindOf(o) = "Authentication"
              [] r.status = 403 -> KindOf(o) = "Authorization"
              [] r.status = 404 -> KindOf(o) = "NotFound"
              [] r.status = 429 -> KindOf(o) = "RateLimited"
              [] r.status \in {500, 502, 503, 504} -> KindOf(o) = "Server"
              [] OTHER ->
                   /\ KindOf(o) = "Generic"
                   /\ o.message = IF r.message # "" THEN r.message
                                  ELSE IF r.msg # "" THEN r.msg
                                  ELSE IF r.error # "" THEN r.error
                                  ELSE "An unexpected error occurred"

C13_Witness ==
  /\ pure.fn = "handleError"
  /\ pure.in.response.present
  /\ pure.in.response.status = 418
  /\ pure.in.response.message = ""
  /\ pure.in.response.msg = "try later"
  /\ pure.out.message = "try later"

\* C14: isTokenExpired returns false only for a three-segment token whose
\* middle segment decodes to JSON with an exp strictly in the future, and
\* true for every other input.
C14_ExpiredUnlessFutureExp ==
  pure.fn = "isTokenExpired" =>
    LET dc == Decode(pure.in.token) IN
    (pure.out = FALSE) <=>
      (dc.segments = 3 /\ dc.json /\ dc.hasExp /\ dc.exp > pure.in.now)

\* C18: a success resolves with body.data when the body is an object with
\* a data field that is not undefined, and with the body itself otherwise.
C18_UnwrapDataWhenDefined ==
  pure.fn = "unwrap" =>
    /\ pure.out.from = "data" <=> (pure.in.obj /\ pure.in.data \in {"payload", "null"})
    /\ pure.out.from = "body" <=> ~(pure.in.obj /\ pure.in.data \in {"payload", "null"})
    /\ pure.out.access_token = pure.in.access_token

C18_Witness ==
  /\ pure.fn = "unwrap"
  /\ pure.in.obj /\ pure.in.data = "undefined"
  /\ pure.out.from = "body"

\* C15: after setToken(t) getToken() returns t, and after the clear
\* operation getToken() returns the absent value, whatever sets and clears
\* came before.
C15_TokenRoundTrip ==
  [][ /\ pure'.fn = "setToken" =>
           \A rc \in Receivers : localStorage'[thisTOKEN_KEY(rc)] = pure'.in
      /\ pure'.fn = "removeToken" =>
           \A rc \in Receivers : localStorage'[thisTOKEN_KEY(rc)] = NoToken ]_vars

\* C20: setLoading(key, b) updates the registry and notifies every
\* subscribed listener exactly once with the full registry, in which key
\* maps to b; isLoading(key) then returns b, and false for a key never set.
C20_SetLoadingNotifiesAndReads ==
  [][ /\ pure'.fn = "setLoading" =>
           /\ pure'.in.key \in DOMAIN loadingStates'
           /\ loadingStates'[pure'.in.key] = pure'.in.loading
           /\ \A l \in listeners : notified'[l] = Append(notified[l], loadingStates')
           /\ \A l \in Listeners \ listeners : notified'[l] = notified[l]
      /\ pure'.fn = "isLoading" =>
           /\ ~pure'.out.threw
           /\ pure'.out.value = IF pure'.in \in DOMAIN loadingStates'
                                 THEN loadingStates'[pure'.in] ELSE FALSE ]_vars

\* C21: subscribe(fn) returns an unsubscribe function; once it was called
\* fn gets no further notification, while every listener still subscribed
\* gets every one.
C21_UnsubscribeStopsOnlyThatListener ==
  [][ /\ pure'.fn = "subscribe" => ~pure'.out.threw
      /\ pure'.fn = "unsubscribe" => \E l \in listeners : listeners' = listeners \ {l}
      /\ pure'.fn = "setLoading" =>
           \A l \in Listeners :
             notified'[l] = IF l \in listeners' THEN Append(notified[l], loadingStates')
                            ELSE notified[l] ]_vars

\* C27: apiUtils.setToken(t) with an unexpired t makes isAuthenticated()
\* true and the next non-bootstrap request carry Bearer t; after
\* apiUtils.removeToken() isAuthenticated() is false and the next request
\* carries no Authorization header.
C27_ApiUtilsTokenIsTheClientsToken ==
  [][ /\ ( /\ pure'.fn = "setToken" /\ pure'.via = "apiUtils"
           /\ ~isTokenExpired(pure'.in, now') )
           => /\ isAuthenticated'
              /\ \A o \in Ops : ~isAuthEndpoint(o) => authHeader(o)' = pure'.in
      /\ ( pure'.fn = "removeToken" /\ pure'.via = "apiUtils" )
           => /\ ~isAuthenticated'
              /\ \A o \in Ops : authHeader(o)' = NoToken ]_vars

\* C28: the status of the typed error equals the HTTP status of the
\* response it was built from, and 0 when there was no response.
C28_StatusPreserved ==
  pure.fn = "handleError" =>
    pure.out.status = IF pure.in.response.present THEN pure.in.response.status ELSE 0

\* The network attempt of frame <<c, r>> is answered with a 401 in this step.
Gets401(c, r) == frame[c][r].st = "net" /\ frame'[c][r].failed = "auth"

\* C22: for one call that fails with a 401 the credential removal and the
\* forced navigation (when the path is not a login path) are performed
\* exactly once: by the one attempt that got the 401, and no other attempt
\* of the call gets one.
C22_DeauthOncePerCall ==
  [][ /\ \A c \in Calls, r \in Levels :
           Gets401(c, r) =>
             /\ localStorage'[TOKEN_KEY] = NoToken
             /\ navigations' = navigations + (IF pathname # "/login" THEN 1 ELSE 0)
             /\ \A q \in Levels \ {r} : frame'[c][q].failed # "auth"
      /\ navigations' # navigations => \E c \in Calls, r \in Levels : Gets401(c, r) ]_vars

C22_Witness ==
  \E c \in Calls :
    /\ frame[c][0].failed = "auth"
    /\ frame[c][0].st = "child"
    /\ frame[c][1].st = "joined"
    /\ navigations = 1
    /\ getToken = NoToken

\* No other call made so far has the loading key of call c.
AloneOnKey(c) ==
  \A d \in Calls \ {c} :
    Started(d) => loadingKeyOf(callOp[d]) # loadingKeyOf(callOp[c])

\* C23: while a call is in progress and no other call uses its (method,
\* url) key, the loading flag of the key is true, through every backoff
\* delay and every retry.
C23_FlagTrueWhileInProgress ==
  \A c \in Calls :
    (Started(c) /\ ~Terminal(c) /\ AloneOnKey(c)) => isLoading(loadingKeyOf(callOp[c]))

C23_Witness ==
  \E c, d \in Calls :
    /\ frame[c][0].st = "child" /\ frame[c][0].delay = 1000
    /\ AloneOnKey(c)
    /\ isLoading(loadingKeyOf(callOp[c]))
    /\ d # c /\ Terminal(d)

\* C24: a retry always sends a new network request and never joins the
\* pending request of the call it retries, so no call waits on a promise
\* that waits on that call.
C24_RetrySendsNewRequest ==
  \A c \in Calls, r \in Levels :
    /\ (r >= 1 /\ frame[c][r].st # "idle") => frame[c][r].awaits = <<c, r>>
    /\ frame[c][r].st = "joined" => frame[c][r].awaits[1] # c

\* C25: isLoading(method-url) is true whenever a call with that method and
\* url is still in flight, also when two calls with the same method and
\* url but different params or bodies overlap and one finishes first.
C25_FlagTrueWhileAnyInFlight ==
  \A c \in Calls :
    (Started(c) /\ ~Terminal(c)) => isLoading(loadingKeyOf(callOp[c]))

\* The stored credential was put there by a verifyOtp call that resolved.
StoredByVerifyOtp ==
  \E d \in Calls :
    /\ callOp[d].name = "verifyOtp"
    /\ opResult[d].st = "resolved"
    /\ getToken # NoToken
    /\ opResult[d].result.val.access_token = getToken

ErrorToasts(c) == SelectSeq(toasts[c], IsErrorToast)

C30_LoginFlow ==
  /\ [][ /\ (ui.step = "login" /\ ui'.step = "otp") =>
               \E c \in Calls : /\ callOp[c].name = "loginInit"
                                 /\ Resolves(c)
                                 /\ opResult'[c].result.val.msg = "OTP sent"
         /\ (ui.view = "login" /\ ui'.view = "dashboard") =>
               \E c \in Calls : /\ callOp[c].name = "verifyOtp"
                                 /\ Resolves(c)
                                 /\ opResult'[c].result.val.access_token # ""
                                 /\ localStorage'[TOKEN_KEY] =
                                      opResult'[c].result.val.access_token
         /\ (\E c \in Calls : AttemptFails(c)) => ui'.step = ui.step ]_vars
  /\ []((Quiescent /\ \E c \in Calls : CallFailed(c)) => ~ui.loading)

====
